---- MODULE Spec2Model ----
(***************************************************************************)
(* The Fibonacci chip of src/src/lib.rs (FibChip, MyCircuit and the test   *)
(* driver) as a state machine: configure builds the shape, synthesize      *)
(* fills the witness grid region by region and records the copy            *)
(* constraints, and the mock prover checks the gate on every row and every *)
(* copy constraint.                                                        *)
(***************************************************************************)
EXTENDS Integers, Sequences, FiniteSets, TLC

VARIABLES pc, shape, mode, fib_size, instance, grid, assigned, selector,
          copies, regions, b, c, i, hi, violations, tampered, run, prev

vars == <<pc, shape, mode, fib_size, instance, grid, assigned, selector,
          copies, regions, b, c, i, hi, violations, tampered, run, prev>>

(* ------------------------------ bounds --------------------------------- *)

\* Largest fib_size a run is started with.
MaxFib == 5

\* The field is Z/FieldModulus; the source's field is the bn256 scalar field.
FieldModulus == 3

\* Width of usize in the model (64 on the target; TLC integers are 32 bits).
UsizeBits == 4

\* The instance row of the commented-out expose_public call.
ExposeRow == 2

(* ------------------------------ values --------------------------------- *)

Field == 0 .. (FieldModulus - 1)

\* Value::unknown(): a cell value during synthesis without witnesses.
Unknown == -1

\* The failure of a region operation (Result::Err).
Err == -2

\* Rows of the grid: one more than the longest run assigns.
GridRows == MaxFib - 1

Rows == 0 .. (GridRows - 1)

AdviceCols == {"a", "b", "c"}

InstanceCol == "instance"

NoCell == [cell |-> <<"none", 0>>, value |-> Unknown]

\* Public input vectors: up to one entry more than the rows the chip reads.
Instances == UNION {[1 .. n -> Field] : n \in 0 .. (ExposeRow + 1)}

\* Value::and_then / map over two values with field addition.
ValueAdd(x, y) == IF x = Unknown \/ y = Unknown THEN Unknown ELSE (x + y) % FieldModulus

(* ------------------------------ configure ------------------------------ *)

EmptyCS ==
    [advice |-> {}, instance |-> {}, selectors |-> {}, equality |-> {},
     gates |-> <<>>, copies |-> {}]

\* MyCircuit::configure: three advice columns and one instance column.
CircuitColumns(cs) ==
    [cs EXCEPT !.advice = @ \cup AdviceCols, !.instance = @ \cup {InstanceCol}]

\* FibChip::configure: the selector, equality on all four columns, gate "add".
FibChipConfigure(cs) ==
    [cs EXCEPT !.selectors = @ \cup {"selector"},
               !.equality = @ \cup AdviceCols \cup {InstanceCol},
               !.gates = Append(@, "add")]

GateAdd_NoSelector(s, av, bv, cv) == (av + bv - cv) % FieldModulus

\* The polynomial of gate "add": s * (a + b - c).
GateAdd(s, av, bv, cv) == (s * (av + bv - cv)) % FieldModulus

(* ------------------------------ region layer --------------------------- *)

\* query_instance: the public input at a row; a missing row is an error.
InstanceQuery(inst, md, row) ==
    IF md = "keygen" THEN Unknown
    ELSE IF row < Len(inst) THEN inst[row + 1] ELSE Err

\* Whether a copy between two columns is allowed by the shape.
EqualityEnabled(sh, cols) == cols \subseteq sh.equality

FirstRowInstanceRows_SameRow == <<0, 0>>

\* The instance rows assign_first_row reads for a and b.
FirstRowInstanceRows == <<0, 1>>

\* selector.enable(&mut region, 0) in assign_first_row.
FirstRowSelector(row) == {row}

NextRowSelector_Missing(row) == {}

\* selector.enable(&mut region, 0) in assign_row.
NextRowSelector(row) == {row}

\* c of the first row: a + b.
FirstRowC(av, bv) == ValueAdd(av, bv)

NextRowC_Sub(av, bv) ==
    IF av = Unknown \/ bv = Unknown THEN Unknown ELSE (av - bv) % FieldModulus

\* c_value of assign_row: a + b.
NextRowC(av, bv) == ValueAdd(av, bv)

AssignRowCopies_OnlyA(ac, bc, row) == << <<ac.cell, <<"a", row>>>> >>

\* The two copy_advice calls of assign_row.
AssignRowCopies(ac, bc, row) ==
    << <<ac.cell, <<"a", row>>>>, <<bc.cell, <<"b", row>>>> >>

RegionShape_RecordsCopies(sh, cps) ==
    [sh EXCEPT !.copies = @ \cup {cps[k] : k \in 1 .. Len(cps)}]

\* The shape after a region of the chip has been assigned: the chip holds
\* only its FibConfig and the layouter, so the shape is left as it is.
RegionShape(sh, cps) == sh

LoopHi_OffByOne(n) == n % (2 ^ UsizeBits)

\* The upper end of the loop `3..=self.fib_size - 1`, in wrapping arithmetic.
LoopHi(n) == (n - 1) % (2 ^ UsizeBits)

\* Whether `self.fib_size - 1` overflows usize.
LoopHiOverflows(n) == n - 1 < 0

Shuffle_KeepsB(bc, cc, new_c) == [b |-> bc, c |-> new_c]

\* b = c; c = new_c;
Shuffle(bc, cc, new_c) == [b |-> cc, c |-> new_c]

ExposePublicCalls_Enabled(cc) == << <<cc.cell, <<InstanceCol, ExposeRow>>>> >>

\* The expose_public calls of synthesize: the only one is commented out.
ExposePublicCalls(cc) == <<>>

(* ------------------------------ actions -------------------------------- *)

Init ==
    /\ pc = "new"
    /\ shape = EmptyCS
    /\ mode = "none"
    /\ fib_size = 0
    /\ instance = <<>>
    /\ grid = [col \in AdviceCols |-> [r \in Rows |-> 0]]
    /\ assigned = {}
    /\ selector = {}
    /\ copies = <<>>
    /\ regions = 0
    /\ b = NoCell
    /\ c = NoCell
    /\ i = 0
    /\ hi = 0
    /\ violations = <<>>
    /\ tampered = {}
    /\ run = 0
    /\ prev = [fib_size |-> 0, instance |-> <<>>, violations |-> <<>>]

FreshRun ==
    /\ grid' = [col \in AdviceCols |-> [r \in Rows |-> 0]]
    /\ assigned' = {}
    /\ selector' = {}
    /\ copies' = <<>>
    /\ regions' = 0
    /\ b' = NoCell
    /\ c' = NoCell
    /\ i' = 0
    /\ hi' = 0
    /\ violations' = <<>>
    /\ tampered' = {}

\* The witness of a run: a circuit with a fib_size and its public inputs, or
\* the circuit of without_witnesses() (Self::default()) with unknown values.
ChooseWitness ==
    \/ /\ mode' = "prove"
       /\ fib_size' \in 0 .. MaxFib
       /\ instance' \in Instances
    \/ /\ mode' = "keygen"
       /\ fib_size' = 0
       /\ instance' = <<>>

Configure ==
    /\ pc = "new"
    /\ shape' = FibChipConfigure(CircuitColumns(shape))
    /\ pc' = "configured"
    /\ UNCHANGED <<mode, fib_size, instance, grid, assigned, selector, copies,
                   regions, b, c, i, hi, violations, tampered, run, prev>>

StartRun ==
    /\ pc = "configured"
    /\ ChooseWitness
    /\ FreshRun
    /\ run' = 1
    /\ pc' = "first_row"
    /\ UNCHANGED <<shape, prev>>

AssignFirstRow ==
    /\ pc = "first_row"
    /\ LET row == regions
           av == InstanceQuery(instance, mode, FirstRowInstanceRows[1])
           bv == InstanceQuery(instance, mode, FirstRowInstanceRows[2])
           cv == FirstRowC(av, bv)
           fresh == {<<"a", row>>, <<"b", row>>, <<"c", row>>} \cap assigned = {}
           cps == << <<<<InstanceCol, FirstRowInstanceRows[1]>>, <<"a", row>>>>,
                     <<<<InstanceCol, FirstRowInstanceRows[2]>>, <<"b", row>>>> >>
       IN  /\ selector' = selector \cup FirstRowSelector(row)
           /\ IF av = Err \/ ~fresh \/ ~EqualityEnabled(shape, {InstanceCol, "a"})
              THEN /\ pc' = "error"
                   /\ UNCHANGED <<grid, assigned, copies, regions, b, c, shape>>
              ELSE IF bv = Err \/ ~EqualityEnabled(shape, {InstanceCol, "b"})
              THEN /\ pc' = "error"
                   /\ grid' = [grid EXCEPT !["a"][row] = av]
                   /\ assigned' = assigned \cup {<<"a", row>>}
                   /\ copies' = Append(copies, cps[1])
                   /\ UNCHANGED <<regions, b, c, shape>>
              ELSE /\ pc' = "loop_bound"
                   /\ grid' = [grid EXCEPT !["a"][row] = av, !["b"][row] = bv,
                                           !["c"][row] = cv]
                   /\ assigned' = assigned \cup
                                    {<<"a", row>>, <<"b", row>>, <<"c", row>>}
                   /\ copies' = copies \o cps
                   /\ regions' = regions + 1
                   /\ b' = [cell |-> <<"b", row>>, value |-> bv]
                   /\ c' = [cell |-> <<"c", row>>, value |-> cv]
                   /\ shape' = RegionShape(shape, cps)
    /\ UNCHANGED <<mode, fib_size, instance, i, hi, violations, tampered, run, prev>>

\* `3..=self.fib_size - 1` without overflow checks: the bound wraps.
LoopBound ==
    /\ pc = "loop_bound"
    /\ hi' = LoopHi(fib_size)
    /\ i' = 3
    /\ pc' = "loop"
    /\ UNCHANGED <<shape, mode, fib_size, instance, grid, assigned, selector,
                   copies, regions, b, c, violations, tampered, run, prev>>

\* `self.fib_size - 1` with overflow checks: the subtraction panics.
LoopBoundPanic ==
    /\ pc = "loop_bound"
    /\ LoopHiOverflows(fib_size)
    /\ pc' = "panic"
    /\ UNCHANGED <<shape, mode, fib_size, instance, grid, assigned, selector,
                   copies, regions, b, c, i, hi, violations, tampered, run, prev>>

AssignRow ==
    /\ pc = "loop"
    /\ i <= hi
    /\ regions < GridRows
    /\ LET row == regions
           cv == NextRowC(b.value, c.value)
           fresh == {<<"a", row>>, <<"b", row>>, <<"c", row>>} \cap assigned = {}
           cps == AssignRowCopies(b, c, row)
           new_c == [cell |-> <<"c", row>>, value |-> cv]
           next == Shuffle(b, c, new_c)
       IN  /\ selector' = selector \cup NextRowSelector(row)
           /\ IF ~fresh \/ ~EqualityEnabled(shape, {b.cell[1], c.cell[1], "a", "b"})
              THEN /\ pc' = "error"
                   /\ UNCHANGED <<grid, assigned, copies, regions, b, c, i, shape>>
              ELSE /\ pc' = "loop"
                   /\ grid' = [grid EXCEPT !["a"][row] = b.value,
                                           !["b"][row] = c.value,
                                           !["c"][row] = cv]
                   /\ assigned' = assigned \cup
                                    {<<"a", row>>, <<"b", row>>, <<"c", row>>}
                   /\ copies' = copies \o cps
                   /\ regions' = regions + 1
                   /\ b' = next.b
                   /\ c' = next.c
                   /\ i' = i + 1
                   /\ shape' = RegionShape(shape, cps)
    /\ UNCHANGED <<mode, fib_size, instance, hi, violations, tampered, run, prev>>

LoopExit ==
    /\ pc = "loop"
    /\ i > hi
    /\ copies' = copies \o ExposePublicCalls(c)
    /\ pc' = "synthesized"
    /\ UNCHANGED <<shape, mode, fib_size, instance, grid, assigned, selector,
                   regions, b, c, i, hi, violations, tampered, run, prev>>

(* ------------------------------ verification --------------------------- *)

\* The value the prover resolves for a cell; rows of the instance column
\* beyond the public inputs hold zero.
CellValue(g, inst, cell) ==
    IF cell[1] = InstanceCol
    THEN IF cell[2] < Len(inst) THEN inst[cell[2] + 1] ELSE 0
    ELSE g[cell[1]][cell[2]]

GateViolation(row) ==
    [kind |-> "ConstraintNotSatisfied", gate |-> "add", row |-> row, pair |-> <<>>]

CopyViolation(pair) ==
    [kind |-> "EqualityConstraintNotSatisfied", gate |-> "", row |-> -1, pair |-> pair]

RECURSIVE GateViolations(_, _, _)
GateViolations(g, sel, row) ==
    IF row >= GridRows THEN <<>>
    ELSE LET s == IF row \in sel THEN 1 ELSE 0
             rest == GateViolations(g, sel, row + 1)
         IN  IF GateAdd(s, g["a"][row], g["b"][row], g["c"][row]) # 0
             THEN <<GateViolation(row)>> \o rest
             ELSE rest

RECURSIVE CopyViolations(_, _, _, _)
CopyViolations(g, inst, cps, k) ==
    IF k > Len(cps) THEN <<>>
    ELSE LET rest == CopyViolations(g, inst, cps, k + 1)
         IN  IF CellValue(g, inst, cps[k][1]) # CellValue(g, inst, cps[k][2])
             THEN <<CopyViolation(cps[k])>> \o rest
             ELSE rest

\* Gate violations in row order, then copy violations in creation order.
VerifyGrid(g, inst, sel, cps) ==
    GateViolations(g, sel, 0) \o CopyViolations(g, inst, cps, 1)

\* The cells of the run whose value another run may hold differently.
GridCells ==
    {<<col, r>> : col \in AdviceCols, r \in Rows}
        \cup {<<InstanceCol, r>> : r \in 0 .. (Len(instance) - 1)}

\* An otherwise identical run in which one cell holds another value.
Tamper ==
    /\ pc = "synthesized"
    /\ mode = "prove"
    /\ tampered = {}
    /\ \E cell \in GridCells, v \in Field :
         /\ v # CellValue(grid, instance, cell)
         /\ tampered' = {cell}
         /\ IF cell[1] = InstanceCol
            THEN /\ instance' = [instance EXCEPT ![cell[2] + 1] = v]
                 /\ UNCHANGED grid
            ELSE /\ grid' = [grid EXCEPT ![cell[1]][cell[2]] = v]
                 /\ UNCHANGED instance
    /\ UNCHANGED <<pc, shape, mode, fib_size, assigned, selector, copies,
                   regions, b, c, i, hi, violations, run, prev>>

\* MockProver::run(..).unwrap() followed by assert_satisfied().
Verify ==
    /\ pc = "synthesized"
    /\ mode = "prove"
    /\ violations' = VerifyGrid(grid, instance, selector, copies)
    /\ pc' = "verified"
    /\ UNCHANGED <<shape, mode, fib_size, instance, grid, assigned, selector,
                   copies, regions, b, c, i, hi, tampered, run, prev>>

\* A second witness run against the same shape.
NextRun ==
    /\ pc = "verified"
    /\ run = 1
    /\ prev' = [fib_size |-> fib_size, instance |-> instance,
                violations |-> violations]
    /\ ChooseWitness
    /\ FreshRun
    /\ run' = 2
    /\ pc' = "first_row"
    /\ UNCHANGED shape

Next ==
    \/ Configure
    \/ StartRun
    \/ AssignFirstRow
    \/ LoopBound
    \/ LoopBoundPanic
    \/ AssignRow
    \/ LoopExit
    \/ Tamper
    \/ Verify

Spec == Init /\ [][Next]_vars

NextReuse ==
    \/ Configure
    \/ StartRun
    \/ AssignFirstRow
    \/ LoopBound
    \/ LoopBoundPanic
    \/ AssignRow
    \/ LoopExit
    \/ Verify
    \/ NextRun

SpecReuse == Init /\ [][NextReuse]_vars

(* ------------------------------ properties ----------------------------- *)

Terminal == {"verified", "error", "panic"}

Honest == mode = "prove" /\ tampered = {}

\* The Fibonacci-style sequence 1, 1, 2, 3, 5, ... in the field.
RECURSIVE Fib(_)
Fib(n) == IF n <= 2 THEN 1 % FieldModulus ELSE (Fib(n - 1) + Fib(n - 2)) % FieldModulus

EqualityViolations == SelectSeq(violations, LAMBDA v : v.kind = "EqualityConstraintNotSatisfied")

GateRows == {violations[k].row : k \in {j \in 1 .. Len(violations) : violations[j].kind = "ConstraintNotSatisfied"}}

\* How many violations of the list reference the copy constraint `pair`.
Referencing(pair) == Cardinality({k \in 1 .. Len(violations) : violations[k].pair = pair})

\* The cell a row's a (b) is copied from: b0 for row 1's a, else the c of two
\* rows (one row) before.
SourceOfA(r) == IF r = 1 THEN <<"b", 0>> ELSE <<"c", r - 2>>

SourceOfB(r) == <<"c", r - 1>>

\* The copy constraints the synthesis of n regions creates.
FibCopies(n) ==
    {<<<<InstanceCol, 0>>, <<"a", 0>>>>, <<<<InstanceCol, 1>>, <<"b", 0>>>>}
        \cup {<<SourceOfA(r), <<"a", r>>>> : r \in 1 .. (n - 1)}
        \cup {<<SourceOfB(r), <<"b", r>>>> : r \in 1 .. (n - 1)}

Containing(cell, n) == {p \in FibCopies(n) : p[1] = cell \/ p[2] = cell}

\* C1: for every fib_size >= 2 and public inputs [1,1], the run ends verified
\* with an empty violation list (never in an error or a panic).
C1_FibSatisfied ==
    (Honest /\ fib_size >= 2 /\ instance = <<1, 1>> /\ pc \in Terminal)
        => (pc = "verified" /\ violations = <<>>)

C1_Witness ==
    /\ Honest /\ pc = "verified" /\ instance = <<1, 1>>
    /\ fib_size = MaxFib /\ regions = MaxFib - 2 /\ violations = <<>>

\* C2 as stated: for every fib_size N >= 2 and inputs starting (1,1) the
\* final c of synthesize is the N-th term.
C2_FinalIsNthTerm_FromTwo ==
    (Honest /\ fib_size >= 2 /\ Len(instance) >= 2 /\ instance[1] = 1
        /\ instance[2] = 1 /\ pc \in {"synthesized", "verified"})
        => c.value = Fib(fib_size)

\* C2, amended: for every fib_size N >= 3 and inputs starting (1,1) the final
\* c of synthesize is the N-th term, after N - 2 regions; for N in {1, 2} the
\* loop is empty and the final c is the first row's c, the third term.
C2_FinalIsNthTerm ==
    (Honest /\ fib_size >= 1 /\ Len(instance) >= 2 /\ instance[1] = 1
        /\ instance[2] = 1 /\ pc \in {"synthesized", "verified"})
        => IF fib_size >= 3
           THEN c.value = Fib(fib_size) /\ regions = fib_size - 2
           ELSE c.value = Fib(3) /\ regions = 1

C2_Witness ==
    /\ Honest /\ pc = "synthesized" /\ fib_size = MaxFib
    /\ Len(instance) >= 2 /\ instance[1] = 1 /\ instance[2] = 1
    /\ c.value = Fib(MaxFib) /\ c.cell = <<"c", MaxFib - 3>>

\* C3: gate locality: no violation of gate "add" is reported at a row whose
\* selector is 0, whatever the cells of the row hold.
C3_GateLocality ==
    pc = "verified" => GateRows \subseteq selector

C3_Witness ==
    /\ pc = "verified"
    /\ \E r \in Rows :
         /\ r \notin selector /\ r >= regions
         /\ (grid["a"][r] + grid["b"][r] - grid["c"][r]) % FieldModulus # 0

\* C4 as stated: changing exactly one cell of a recorded copy constraint
\* yields exactly one EqualityConstraintNotSatisfied violation.
C4_ExactlyOneViolation ==
    (pc = "verified" /\ mode = "prove" /\ tampered # {})
        => \A cell \in tampered :
             Containing(cell, regions) # {} => Len(EqualityViolations) = 1

\* C4, amended: a copy constraint whose two cells are equal never appears in
\* the violation list, and changing exactly one cell X yields exactly one
\* EqualityConstraintNotSatisfied violation for each copy constraint that
\* contains X (one for a0, the a and b cells of later rows and the instance
\* cells; two for b0 and for a c cell copied into the next two rows), each
\* referencing its own pair, and no other.
C4_CopySymmetry ==
    (pc = "verified" /\ mode = "prove")
        => /\ \A k \in 1 .. Len(copies) :
                CellValue(grid, instance, copies[k][1]) = CellValue(grid, instance, copies[k][2])
                    => Referencing(copies[k]) = 0
           /\ tampered = {} => EqualityViolations = <<>>
           /\ \A cell \in tampered :
                /\ \A p \in Containing(cell, regions) : Referencing(p) = 1
                /\ Len(EqualityViolations) = Cardinality(Containing(cell, regions))

C4_Witness ==
    /\ pc = "verified" /\ tampered = {<<"c", 0>>} /\ regions >= 3
    /\ Referencing(<<<<"c", 0>>, <<"b", 1>>>>) = 1
    /\ Referencing(<<<<"c", 0>>, <<"a", 2>>>>) = 1

\* C5: the circuit of without_witnesses() is synthesized without a panic and
\* without its loop running: the loop bound fib_size - 1 does not wrap.
C5_DefaultCircuitSynthesizes ==
    mode = "keygen" => (pc # "panic" /\ (pc = "loop" => hi < 3) /\ regions <= 1)

\* C6: with fewer than 2 public inputs the first region fails, synthesize
\* returns the error at once, no region is completed and nothing is verified.
C6_MissingInstanceFails ==
    (mode = "prove" /\ Len(instance) < 2 /\ pc # "first_row")
        => (pc = "error" /\ regions = 0 /\ violations = <<>>
                /\ b = NoCell /\ c = NoCell)

C6_Witness ==
    /\ pc = "error" /\ mode = "prove" /\ Len(instance) = 1
    /\ selector = {0} /\ assigned = {<<"a", 0>>}

\* C7: once configured, the shape (4 columns, the selector, the gate "add",
\* no copy constraints) is the same in every state of every run; the copy
\* constraints of the regions are in the run's own list.
C7_ShapeReused ==
    pc # "new"
        => shape = [advice |-> {"a", "b", "c"}, instance |-> {"instance"},
                    selectors |-> {"selector"},
                    equality |-> {"a", "b", "c", "instance"},
                    gates |-> <<"add">>, copies |-> {}]

C7_Witness ==
    /\ run = 2 /\ pc = "verified" /\ regions >= 2
    /\ prev.fib_size # fib_size /\ prev.instance # instance
    /\ Len(copies) = 2 * regions /\ shape.copies = {}

C9_EveryRowGated ==
    (mode = "prove" /\ pc \in {"loop_bound", "loop", "synthesized", "verified"})
        => /\ selector = 0 .. (regions - 1)
           /\ assigned = {<<col, r>> : col \in AdviceCols, r \in 0 .. (regions - 1)}
           /\ pc = "verified"
                => \A r \in 0 .. (regions - 1) :
                     r \in GateRows
                        <=> (grid["a"][r] + grid["b"][r] - grid["c"][r]) % FieldModulus # 0

C9_Witness ==
    /\ pc = "verified" /\ regions >= 3 /\ tampered = {<<"c", 1>>}
    /\ GateRows = {1}

\* C10: no copy constraint touches an instance row other than 0 and 1, and
\* two runs with the same fib_size whose public inputs agree on entries 0
\* and 1 end with the same violation list.
C10_OutputNotChecked ==
    (pc = "verified" /\ mode = "prove")
        => /\ \A k \in 1 .. Len(copies) :
                copies[k][1][1] = InstanceCol => copies[k][1][2] \in {0, 1}
           /\ \A k \in 1 .. Len(copies) : copies[k][2][1] # InstanceCol
           /\ (run = 2 /\ prev.fib_size = fib_size /\ Len(prev.instance) >= 2
                 /\ prev.instance[1] = instance[1] /\ prev.instance[2] = instance[2])
                => violations = prev.violations

C10_Witness ==
    /\ pc = "verified" /\ run = 2 /\ prev.fib_size = fib_size /\ fib_size >= 3
    /\ Len(prev.instance) = 3 /\ Len(instance) = 3
    /\ prev.instance[1] = instance[1] /\ prev.instance[2] = instance[2]
    /\ prev.instance[3] = c.value /\ instance[3] # c.value
    /\ violations = prev.violations

====
